---- MODULE Spec2Model ----
(***************************************************************************)
(* 7sClock (src/src/main.cpp): the render pipeline of a two-strip          *)
(* seven-segment LED clock.  The model covers the global state of the      *)
(* sketch (config, dotState, lastBlink, lastSync, the two NeoPixel         *)
(* strips), one loop() iteration, updateDisplay()/drawDigit(), and the     *)
(* HTTP /save handler that rewrites the configuration.                     *)
(*                                                                         *)
(* Library boundary: an Adafruit_NeoPixel strip is a pixel array, a        *)
(* brightness scalar and the frame last pushed by show(); millis() is a    *)
(* free-running 32-bit millisecond counter; getLocalTime() either fails    *)
(* or yields tm_hour in 0..23 and tm_min in 0..59.  Handlers of the async  *)
(* web server run between loop() iterations.                               *)
(***************************************************************************)
EXTENDS Integers, Sequences, FiniteSets, TLC

VARIABLES
    config,       \* ClockConfig config (fields read by loop/updateDisplay)
    dotState,     \* bool dotState
    lastBlink,    \* unsigned long lastBlink
    lastSync,     \* unsigned long lastSync
    hourStrip,    \* Adafruit_NeoPixel hourStrip
    minuteStrip,  \* Adafruit_NeoPixel minuteStrip
    savedFile,    \* /config.json as written by saveConfig(): <<>> or <<fields>>
    ms,           \* the value millis() returned in the latest loop() iteration
    iter,         \* locals and branch taken by the latest loop() iteration
    locals,       \* locals of the latest updateDisplay() that got a local time
    ticks,        \* number of cadence actions performed so far
    loops,        \* number of loop() iterations so far
    saves,        \* number of /save requests handled so far
    forcedAt,     \* index of the latest cadence action taken with blinkDots off
    sinceAction   \* true milliseconds since the latest cadence action (or boot)

vars == <<config, dotState, lastBlink, lastSync, hourStrip, minuteStrip,
          savedFile, ms, iter, locals, ticks, loops, saves, forcedAt, sinceAction>>

----------------------------------------------------------------------------
(* Program constants *)

NUM_LEDS == 15

BYTE == 2 ^ 8               \* range of uint8_t

LIMB == 2 ^ 16              \* an unsigned long is kept as two 16-bit limbs

BLINK_MS == 1000

segmentMap == <<126, 48, 109, 121, 51, 91, 95, 112, 127, 123>>

minuteSegmentMapTypo == <<119, 18, 93, 91, 59, 107, 111, 82, 127, 123>>

minuteSegmentMap == <<119, 18, 93, 91, 58, 107, 111, 82, 127, 123>>

hourSegmentOrder == <<1, 0, 4, 5, 6, 2, 3>>

minuteSegmentOrder == <<5, 4, 6, 3, 0, 2, 1>>

DefaultColor == <<"#", "F", "F", "0", "0", "0", "0">>

----------------------------------------------------------------------------
(* Bounds of the model *)

MaxLoops == 3               \* loop() iterations explored by Spec

MaxSaves == 1               \* /save requests explored by Spec

MaxRenders == 1             \* loop() iterations explored by SpecDim, SpecHour

----------------------------------------------------------------------------
(* Arithmetic helpers *)

(* unsigned long (32 bits): the value hi * 2^16 + lo, arithmetic modulo 2^32 *)
U32(n) == [hi |-> (n \div LIMB) % LIMB, lo |-> n % LIMB]

Add32(a, b) ==
    [ hi |-> (a.hi + b.hi + ((a.lo + b.lo) \div LIMB)) % LIMB,
      lo |-> (a.lo + b.lo) % LIMB ]

Sub32(a, b) ==
    [ hi |-> (a.hi - b.hi - (IF a.lo < b.lo THEN 1 ELSE 0) + 2 * LIMB) % LIMB,
      lo |-> (a.lo - b.lo + LIMB) % LIMB ]

Mul32(a, k) ==
    [ hi |-> (a.hi * k + ((a.lo * k) \div LIMB)) % LIMB,
      lo |-> (a.lo * k) % LIMB ]

Geq32(a, b) == a.hi > b.hi \/ (a.hi = b.hi /\ a.lo >= b.lo)

FromLong(n) == IF n >= 0 THEN U32(n) ELSE Sub32(U32(0), U32(-n))

(* an unbounded count of milliseconds, in the same two-limb form *)
AddWide(a, b) ==
    [ hi |-> a.hi + b.hi + ((a.lo + b.lo) \div LIMB),
      lo |-> (a.lo + b.lo) % LIMB ]

Bit(x, k) == (x \div (2 ^ k)) % 2

HexTable ==
    [c \in {"0", "1", "2", "3", "4", "5", "6", "7", "8", "9"} |->
        CHOOSE v \in 0..9 : <<"0", "1", "2", "3", "4", "5", "6", "7", "8", "9">>[v + 1] = c]
    @@ [c \in {"A", "B", "C", "D", "E", "F"} |->
        CHOOSE v \in 10..15 : <<"A", "B", "C", "D", "E", "F">>[v - 9] = c]
    @@ [c \in {"a", "b", "c", "d", "e", "f"} |->
        CHOOSE v \in 10..15 : <<"a", "b", "c", "d", "e", "f">>[v - 9] = c]

HexValue(c) == IF c \in DOMAIN HexTable THEN HexTable[c] ELSE -1

RECURSIVE strtoul16(_, _, _)
strtoul16(s, i, acc) ==
    IF i > Len(s) \/ HexValue(s[i]) < 0
    THEN acc
    ELSE strtoul16(s, i + 1, acc * 16 + HexValue(s[i]))

IsHash(c) == c = "#"

parseHex(hexColor) ==
    strtoul16(SelectSeq(hexColor, LAMBDA c : ~IsHash(c)), 1, 0)

(* The colours the model configures, parsed once; any other string is parsed
   on the spot.  Same value either way. *)
Blue == <<"#", "0", "0", "0", "0", "f", "f">>

KnownColors == {DefaultColor, Blue}

ParsedColor == [c \in KnownColors |-> parseHex(c)]

parseColor(hexColor) ==
    IF hexColor \in KnownColors THEN ParsedColor[hexColor] ELSE parseHex(hexColor)

----------------------------------------------------------------------------
(* Adafruit_NeoPixel, at its interface *)

Dark == [i \in 0..(NUM_LEDS - 1) |-> 0]

NewStrip ==
    [ pixels     |-> Dark,
      brightness |-> 255,
      out        |-> [pixels |-> Dark, brightness |-> 255],
      shows      |-> 0 ]

clearNothing(strip) == strip

clear(strip) == [strip EXCEPT !.pixels = Dark]

setPixelColor(strip, n, c) ==
    IF n \in 0..(NUM_LEDS - 1)
    THEN [strip EXCEPT !.pixels[n] = c]
    ELSE strip

setBrightness(strip, b) == [strip EXCEPT !.brightness = b % BYTE]

show(strip) ==
    [strip EXCEPT !.out = [pixels |-> strip.pixels, brightness |-> strip.brightness],
                  !.shows = strip.shows + 1]

----------------------------------------------------------------------------
(* drawDigit *)

digitSegments(digit, isMinute) ==
    IF isMinute THEN minuteSegmentMap[digit + 1] ELSE segmentMap[digit + 1]

segmentOrder(isMinute) ==
    IF isMinute THEN minuteSegmentOrder ELSE hourSegmentOrder

segmentOn(segments, i) == Bit(segments, 6 - i) = 1

ledIndexOneBased(startIndex, isMinute, i) ==
    startIndex + segmentOrder(isMinute)[i + 1] + 1

ledIndex(startIndex, isMinute, i) == startIndex + segmentOrder(isMinute)[i + 1]

RECURSIVE drawFrom(_, _, _, _, _, _)
drawFrom(strip, startIndex, digit, isMinute, color, i) ==
    IF i >= 7
    THEN strip
    ELSE drawFrom(
           setPixelColor(strip, ledIndex(startIndex, isMinute, i),
                         IF segmentOn(digitSegments(digit, isMinute), i)
                         THEN parseColor(color) ELSE 0),
           startIndex, digit, isMinute, color, i + 1)

drawDigit(strip, startIndex, digit, isMinute, color) ==
    drawFrom(strip, startIndex, digit, isMinute, color, 0)

----------------------------------------------------------------------------
(* updateDisplay *)

displayHourZeroKept(tm_hour, use24h) ==
    IF ~use24h
    THEN IF tm_hour > 12 THEN tm_hour - 12 ELSE tm_hour
    ELSE tm_hour

displayHourNoSubtract(tm_hour, use24h) ==
    IF ~use24h
    THEN IF tm_hour = 0 THEN 12 ELSE tm_hour
    ELSE tm_hour

displayHour(tm_hour, use24h) ==
    IF ~use24h
    THEN LET a == IF tm_hour > 12 THEN tm_hour - 12 ELSE tm_hour
         IN  IF a = 0 THEN 12 ELSE a
    ELSE tm_hour

drawsHourTensIgnoringHide(h1, cfg) ==
    h1 > 0 \/ cfg.use24h

drawsHourTens(h1, cfg) ==
    h1 > 0 \/ (cfg.use24h /\ ~cfg.hideLeadingZero24h)

dimConditionHalfOpen(tm_hour, cfg) ==
    cfg.autoDim
    /\ IF cfg.dimStartHour <= cfg.dimEndHour
       THEN tm_hour >= cfg.dimStartHour /\ tm_hour < cfg.dimEndHour
       ELSE tm_hour >= cfg.dimStartHour \/ tm_hour < cfg.dimEndHour

dimConditionIgnoringAutoDim(tm_hour, cfg) ==
    tm_hour >= cfg.dimStartHour \/ tm_hour < cfg.dimEndHour

dimCondition(tm_hour, cfg) ==
    cfg.autoDim /\ (tm_hour >= cfg.dimStartHour \/ tm_hour < cfg.dimEndHour)

dynamicBrightness(tm_hour, cfg) ==
    IF dimCondition(tm_hour, cfg) THEN cfg.brightness \div 3 ELSE cfg.brightness

dotColor(cfg, dot) == IF dot THEN parseColor(cfg.segmentColor) ELSE 0

hourCalls(tm_hour, cfg) ==
    LET hour == displayHour(tm_hour, cfg.use24h)
        h1   == hour \div 10
        h2   == hour % 10
    IN  (IF drawsHourTens(h1, cfg) THEN << <<8, h1, FALSE>> >> ELSE << >>)
        \o << <<1, h2, FALSE>> >>

minuteCallsSwapped(tm_min) ==
    << <<8, tm_min \div 10, TRUE>>, <<1, tm_min % 10, TRUE>> >>

minuteCalls(tm_min) ==
    << <<1, tm_min \div 10, TRUE>>, <<8, tm_min % 10, TRUE>> >>

RECURSIVE drawAll(_, _, _, _)
drawAll(strip, calls, color, k) ==
    IF k > Len(calls)
    THEN strip
    ELSE drawAll(drawDigit(strip, calls[k][1], calls[k][2], calls[k][3], color),
                 calls, color, k + 1)

renderStripNoClear(strip, calls, cfg, dot, tm_hour) ==
    LET dotted  == setPixelColor(strip, 0, dotColor(cfg, dot))
        drawn   == drawAll(dotted, calls, cfg.segmentColor, 1)
    IN  show(setBrightness(drawn, dynamicBrightness(tm_hour, cfg)))

renderStrip(strip, calls, cfg, dot, tm_hour) ==
    LET cleared == clear(strip)
        dotted  == setPixelColor(cleared, 0, dotColor(cfg, dot))
        drawn   == drawAll(dotted, calls, cfg.segmentColor, 1)
    IN  show(setBrightness(drawn, dynamicBrightness(tm_hour, cfg)))

(* the element indices each drawDigit call passes to setPixelColor, in order *)
callWrites(calls) ==
    [k \in 1..Len(calls) |->
        [j \in 1..7 |-> ledIndex(calls[k][1], calls[k][3], j - 1)]]

displayLocals(t, cfg) ==
    LET hour == displayHour(t.hour, cfg.use24h)
    IN  [ tm_hour |-> t.hour, hour |-> hour, minute |-> t.min,
          h1 |-> hour \div 10, h2 |-> hour % 10,
          m1 |-> t.min \div 10, m2 |-> t.min % 10,
          hourCalls |-> hourCalls(t.hour, cfg),
          minuteCalls |-> minuteCalls(t.min),
          hourWrites |-> callWrites(hourCalls(t.hour, cfg)),
          minuteWrites |-> callWrites(minuteCalls(t.min)),
          dynamicBrightness |-> dynamicBrightness(t.hour, cfg) ]

updateDisplayClearFirst(t, dot) ==
    IF ~t.ok
    THEN /\ hourStrip' = clear(hourStrip)
         /\ minuteStrip' = clear(minuteStrip)
         /\ UNCHANGED locals
    ELSE /\ hourStrip' = renderStrip(hourStrip, hourCalls(t.hour, config),
                                     config, dot, t.hour)
         /\ minuteStrip' = renderStrip(minuteStrip, minuteCalls(t.min),
                                       config, dot, t.hour)
         /\ locals' = displayLocals(t, config)

updateDisplay(t, dot) ==
    IF ~t.ok
    THEN UNCHANGED <<hourStrip, minuteStrip, locals>>
    ELSE /\ hourStrip' = renderStrip(hourStrip, hourCalls(t.hour, config),
                                     config, dot, t.hour)
         /\ minuteStrip' = renderStrip(minuteStrip, minuteCalls(t.min),
                                       config, dot, t.hour)
         /\ locals' = displayLocals(t, config)

----------------------------------------------------------------------------
(* loop *)

blinkDueNoWrap(now, last) == Geq32(now, Add32(last, U32(BLINK_MS)))

blinkDue(now, last) == Geq32(Sub32(now, last), U32(BLINK_MS))

nextDotStateToggleAlways(cfg, dot) == ~dot

nextDotStateKeep(cfg, dot) == IF cfg.blinkDots THEN ~dot ELSE dot

nextDotState(cfg, dot) == IF cfg.blinkDots THEN ~dot ELSE TRUE

syncDue(now, last, cfg) ==
    Geq32(Sub32(now, last), Mul32(Mul32(cfg.ntpSyncInterval, 60), 1000))

loopRenderEveryPass(d, t) ==
    LET now == Add32(ms, d)
        due == blinkDue(now, lastBlink)
    IN  /\ ms' = now
        /\ loops' = loops + 1
        /\ iter' = [now |-> now, acted |-> due, timeOk |-> t.ok,
                    elapsed |-> AddWide(sinceAction, d)]
        /\ IF due
           THEN /\ dotState' = nextDotState(config, dotState)
                /\ lastBlink' = now
                /\ ticks' = ticks + 1
                /\ forcedAt' = IF config.blinkDots THEN forcedAt ELSE ticks + 1
                /\ sinceAction' = U32(0)
           ELSE /\ sinceAction' = AddWide(sinceAction, d)
                /\ UNCHANGED <<dotState, lastBlink, ticks, forcedAt>>
        /\ updateDisplay(t, dotState')
        /\ lastSync' = IF syncDue(now, lastSync, config) THEN now ELSE lastSync
        /\ UNCHANGED <<config, savedFile, saves>>

loop(d, t) ==
    LET now == Add32(ms, d)
        due == blinkDue(now, lastBlink)
    IN  /\ ms' = now
        /\ loops' = loops + 1
        /\ iter' = [now |-> now, acted |-> due, timeOk |-> t.ok,
                    elapsed |-> AddWide(sinceAction, d)]
        /\ IF due
           THEN /\ dotState' = nextDotState(config, dotState)
                /\ lastBlink' = now
                /\ ticks' = ticks + 1
                /\ forcedAt' = IF config.blinkDots THEN forcedAt ELSE ticks + 1
                /\ sinceAction' = U32(0)
                /\ updateDisplay(t, dotState')
           ELSE /\ sinceAction' = AddWide(sinceAction, d)
                /\ UNCHANGED <<dotState, lastBlink, ticks, forcedAt, hourStrip,
                               minuteStrip, locals>>
        /\ lastSync' = IF syncDue(now, lastSync, config) THEN now ELSE lastSync
        /\ UNCHANGED <<config, savedFile, saves>>

----------------------------------------------------------------------------
(* setupWeb: the /save handler, with saveConfig; loadConfig *)

Param(r, name, old, range) ==
    IF Len(r[name]) > 0 THEN r[name][1] % range ELSE old

applySave(cfg, r) ==
    [ blinkDots          |-> r.blinkDots,
      brightness         |-> Param(r, "brightness", cfg.brightness, BYTE),
      segmentColor       |-> IF Len(r.color) > 0 THEN r.color[1]
                             ELSE cfg.segmentColor,
      use24h             |-> r.use24h,
      hideLeadingZero24h |-> r.hideLeadingZero24h,
      autoDim            |-> r.autoDim,
      dimStartHour       |-> Param(r, "dimStart", cfg.dimStartHour, BYTE),
      dimEndHour         |-> Param(r, "dimEnd", cfg.dimEndHour, BYTE),
      ntpSyncInterval    |-> IF Len(r.ntpSyncInterval) > 0
                             THEN FromLong(r.ntpSyncInterval[1])
                             ELSE cfg.ntpSyncInterval ]

DefaultConfig ==
    [ blinkDots          |-> TRUE,
      brightness         |-> 50,
      segmentColor       |-> DefaultColor,
      use24h             |-> FALSE,
      hideLeadingZero24h |-> FALSE,
      autoDim            |-> TRUE,
      dimStartHour       |-> 22,
      dimEndHour         |-> 6,
      ntpSyncInterval    |-> U32(60) ]

saveConfig(cfg, file, opened) == IF opened THEN <<cfg>> ELSE file

loadConfig(cfg, file) == IF Len(file) = 0 THEN cfg ELSE file[1]

SaveResettingDot(r, opened) ==
    /\ config' = applySave(config, r)
    /\ savedFile' = saveConfig(config', savedFile, opened)
    /\ saves' = saves + 1
    /\ dotState' = TRUE
    /\ UNCHANGED <<lastBlink, lastSync, hourStrip, minuteStrip,
                   ms, iter, locals, ticks, loops, forcedAt, sinceAction>>

Save(r, opened) ==
    /\ config' = applySave(config, r)
    /\ savedFile' = saveConfig(config', savedFile, opened)
    /\ saves' = saves + 1
    /\ UNCHANGED <<dotState, lastBlink, lastSync, hourStrip, minuteStrip,
                   ms, iter, locals, ticks, loops, forcedAt, sinceAction>>

----------------------------------------------------------------------------
(* The state when setup() returns, given the contents of /config.json *)

Boot(file) ==
    /\ savedFile = file
    /\ config = loadConfig(DefaultConfig, file)
    /\ dotState = TRUE
    /\ lastBlink = U32(0)
    /\ lastSync = U32(0)
    /\ hourStrip = NewStrip
    /\ minuteStrip = NewStrip
    /\ ms = U32(0)
    /\ iter = [now |-> U32(0), acted |-> FALSE, timeOk |-> FALSE,
               elapsed |-> U32(0)]
    /\ locals = [ tm_hour |-> 0, hour |-> 0, minute |-> 0,
                  h1 |-> 0, h2 |-> 0, m1 |-> 0, m2 |-> 0,
                  hourCalls |-> << >>, minuteCalls |-> << >>,
                  hourWrites |-> << >>, minuteWrites |-> << >>,
                  dynamicBrightness |-> 0 ]
    /\ ticks = 0
    /\ loops = 0
    /\ saves = 0
    /\ forcedAt = 0
    /\ sinceAction = U32(0)

----------------------------------------------------------------------------
(* Inputs *)

Time(h, m) == [ok |-> TRUE, hour |-> h, min |-> m]

NoTime == [ok |-> FALSE, hour |-> 0, min |-> 0]

Times == {NoTime, Time(9, 5), Time(23, 59)}

(* Time between the starts of two loop() iterations.  LongGap stands for a
   long uptime: it carries millis() to 1500 ms before its wrap. *)
LongGap == [hi |-> LIMB - 1, lo |-> LIMB - 1500]

Deltas == {U32(999), U32(BLINK_MS), LongGap}

Request(blink, u24, hide, dim) ==
    [ blinkDots |-> blink, use24h |-> u24, hideLeadingZero24h |-> hide,
      autoDim |-> dim, brightness |-> << >>, color |-> << >>,
      dimStart |-> << >>, dimEnd |-> << >>, ntpSyncInterval |-> << >> ]

Requests ==
    { Request(FALSE, FALSE, FALSE, TRUE),
      [Request(TRUE, TRUE, TRUE, FALSE) EXCEPT
               !.brightness = <<300>>, !.color = <<Blue>>,
               !.dimStart = <<6>>, !.dimEnd = <<22>>,
               !.ntpSyncInterval = <<1>>] }

----------------------------------------------------------------------------
(* Spec: the sketch after a boot without /config.json *)

Init == Boot(<< >>)

Tick == loops < MaxLoops /\ \E d \in Deltas, t \in Times : loop(d, t)

HttpSave == saves < MaxSaves /\ \E r \in Requests, o \in BOOLEAN : Save(r, o)

Next == Tick \/ HttpSave

Spec == Init /\ [][Next]_vars

----------------------------------------------------------------------------
(* SpecDim: boots with autoDim on and every dim window in /config.json, then
   renders at every hour of the day *)

BaseBrightness == {50}

DimFile(a, s, e, b) ==
    << [DefaultConfig EXCEPT !.autoDim = a, !.dimStartHour = s,
                             !.dimEndHour = e, !.brightness = b] >>

InitDim ==
    \E s \in 0..23, e \in 0..23, b \in BaseBrightness :
        Boot(DimFile(TRUE, s, e, b))

TickDim ==
    loops < MaxRenders /\ \E h \in 0..23 : loop(U32(BLINK_MS), Time(h, 7))

NextDim == TickDim

SpecDim == InitDim /\ [][NextDim]_vars

(* SpecNoDim: the same with autoDim off *)

InitNoDim ==
    \E s \in 0..23, e \in 0..23, b \in BaseBrightness :
        Boot(DimFile(FALSE, s, e, b))

SpecNoDim == InitNoDim /\ [][NextDim]_vars

----------------------------------------------------------------------------
(* SpecHour: boots with every hour format in /config.json, then renders at
   every hour of the day *)

Minutes == {0, 7, 59}

HourFile(u, hd) ==
    << [DefaultConfig EXCEPT !.use24h = u, !.hideLeadingZero24h = hd] >>

InitHour == \E u \in BOOLEAN, hd \in BOOLEAN : Boot(HourFile(u, hd))

TickHour ==
    loops < MaxRenders
    /\ \E h \in 0..23, m \in Minutes : loop(U32(BLINK_MS), Time(h, m))

NextHour == TickHour

SpecHour == InitHour /\ [][NextHour]_vars

----------------------------------------------------------------------------
(* SpecMinute: boots with every hour format in /config.json, then renders at
   every minute of an hour *)

MinuteHours == {9, 23}

TickMinute ==
    loops < MaxRenders
    /\ \E h \in MinuteHours, m \in 0..59 : loop(U32(BLINK_MS), Time(h, m))

NextMinute == TickMinute

SpecMinute == InitHour /\ [][NextMinute]_vars

----------------------------------------------------------------------------
(* Vocabulary of the properties *)

Rendered == ticks > 0 /\ iter.acted /\ iter.timeOk

BothBrightness(b) ==
    /\ hourStrip.brightness = b /\ hourStrip.out.brightness = b
    /\ minuteStrip.brightness = b /\ minuteStrip.out.brightness = b

InWindow(hour, start, end) ==
    \/ (start <= end /\ start <= hour /\ hour < end)
    \/ (start > end /\ (hour >= start \/ hour < end))

Civil12(h) == IF h = 0 \/ h = 12 THEN 12 ELSE IF h >= 13 THEN h - 12 ELSE h

HourTensSuppressed ==
    /\ Len(locals.hourCalls) = 1
    /\ \A i \in 8..14 : hourStrip.out.pixels[i] = 0

HourTensDrawn ==
    /\ Len(locals.hourCalls) = 2
    /\ locals.hourCalls[1] = <<8, locals.h1, FALSE>>
    /\ \E i \in 8..14 : hourStrip.out.pixels[i] # 0

HourUnitsCall == locals.hourCalls[Len(locals.hourCalls)]

AtLeastBlink(e) == e.hi > 0 \/ e.lo >= BLINK_MS

BothShown(n) ==
    /\ hourStrip'.shows = hourStrip.shows + n
    /\ minuteStrip'.shows = minuteStrip.shows + n

----------------------------------------------------------------------------
(* C1: with autoDim on and dimStartHour # dimEndHour, the brightness applied
   to both strips is brightness/3 exactly when the hour is inside the dim
   window (start <= hour < end, or wrapped through midnight when start > end),
   and the base brightness at every hour outside it.  The code dims at every
   hour when start < end, so this statement fails. *)
C1_DimExactlyInWindow ==
    (Rendered /\ config.autoDim /\ config.dimStartHour # config.dimEndHour)
    => BothBrightness(
         IF InWindow(locals.tm_hour, config.dimStartHour, config.dimEndHour)
         THEN config.brightness \div 3
         ELSE config.brightness)

C3_SeparatorLit ==
    [][ hourStrip'.shows # hourStrip.shows =>
          LET lit == IF config.blinkDots THEN dotState' ELSE TRUE
              c   == IF lit THEN parseColor(config.segmentColor) ELSE 0
          IN  /\ hourStrip'.out.pixels[0] = c
              /\ minuteStrip'.out.pixels[0] = c ]_vars

C3_Witness ==
    /\ Rendered /\ ticks >= 2 /\ saves > 0 /\ ~config.blinkDots
    /\ hourStrip.out.pixels[0] = parseColor(config.segmentColor)
    /\ hourStrip.out.pixels[0] # 0

(* C4: in 12-hour mode the displayed hour is 12 for hours 0 and 12, hour-12
   for 13..23 and the hour itself for 1..11; in 24-hour mode it is the hour
   unmodified; the digits drawn are displayed/10 and displayed%10. *)
C4_DisplayedHour ==
    Rendered =>
      LET shown == IF config.use24h THEN locals.tm_hour
                   ELSE Civil12(locals.tm_hour)
      IN  /\ locals.hour = shown
          /\ locals.h1 = shown \div 10
          /\ locals.h2 = shown % 10
          /\ HourUnitsCall = <<1, shown % 10, FALSE>>
          /\ Len(locals.hourCalls) = 2
               => locals.hourCalls[1] = <<8, shown \div 10, FALSE>>

C4_Witness ==
    Rendered /\ ~config.use24h /\ locals.tm_hour = 0 /\ locals.hour = 12

(* C5: the hour-tens digit is left undrawn exactly when (12-hour mode and the
   displayed hour is below 10) or (24-hour mode, hideLeadingZero24h on and
   hour < 10); otherwise it is drawn, a '0' included. *)
C5_HourTensSuppression ==
    Rendered =>
      LET suppress ==
            \/ (~config.use24h /\ Civil12(locals.tm_hour) < 10)
            \/ (config.use24h /\ config.hideLeadingZero24h /\ locals.tm_hour < 10)
      IN  IF suppress THEN HourTensSuppressed ELSE HourTensDrawn

C5_Witness ==
    /\ Rendered /\ config.use24h /\ ~config.hideLeadingZero24h
    /\ locals.tm_hour = 5 /\ HourTensDrawn /\ locals.h1 = 0

(* C6, as claimed: in 12-hour mode hours 0 and 12 show "12" with the
   hour-tens digit suppressed, hour 13 shows "1" with it suppressed, hour 22
   shows "10" with it drawn. *)
C6_TwelveSuppressed ==
    (Rendered /\ ~config.use24h) =>
      /\ locals.tm_hour \in {0, 12} => (locals.hour = 12 /\ HourTensSuppressed)
      /\ locals.tm_hour = 13 => (locals.hour = 1 /\ HourTensSuppressed)
      /\ locals.tm_hour = 22 => (locals.hour = 10 /\ HourTensDrawn)

(* C6, amended: in 12-hour mode hours 0 and 12 show "12" with the hour-tens
   digit drawn (a '1'), hour 13 shows "1" with it suppressed, hour 22 shows
   "10" with it drawn. *)
C6_TwelveDrawn ==
    (Rendered /\ ~config.use24h) =>
      /\ locals.tm_hour \in {0, 12}
           => (locals.hour = 12 /\ HourTensDrawn /\ locals.h1 = 1)
      /\ locals.tm_hour = 13 => (locals.hour = 1 /\ HourTensSuppressed)
      /\ locals.tm_hour = 22 => (locals.hour = 10 /\ HourTensDrawn)

C6_Witness ==
    Rendered /\ ~config.use24h /\ locals.tm_hour = 12 /\ HourTensDrawn

(* C7: with autoDim on and dimStartHour = dimEndHour, every hour is dimmed:
   the brightness applied to both strips is brightness/3. *)
C7_DegenerateWindowDimsAll ==
    (Rendered /\ config.autoDim /\ config.dimStartHour = config.dimEndHour)
    => BothBrightness(config.brightness \div 3)

C7_Witness ==
    /\ Rendered /\ config.autoDim
    /\ config.dimStartHour = 6 /\ config.dimEndHour = 6
    /\ locals.tm_hour = 12
    /\ hourStrip.out.brightness = config.brightness \div 3

(* C8: a loop iteration performs the toggle+render action iff at least
   1000 ms have truly elapsed since the previous action (since boot for the
   first one), also when millis() has wrapped in between. *)
C8_ActsIffSecondElapsed ==
    loops > 0 => (iter.acted <=> AtLeastBlink(iter.elapsed))

C8_Witness ==
    /\ iter.acted /\ ticks = 2
    /\ iter.now.hi = 0 /\ iter.now.lo < BLINK_MS
    /\ lastBlink = iter.now

(* C9, as claimed: every action that changes the blink state also shows a new
   frame in the same loop iteration, and no frame is shown without the blink
   step of that action. *)
C9_BlinkAlwaysWithFrame ==
    [][ /\ dotState' # dotState => BothShown(1)
        /\ hourStrip'.shows # hourStrip.shows => ticks' = ticks + 1 ]_vars

(* C9, amended: every cadence action takes the blink step and calls
   updateDisplay in the same loop iteration, which shows exactly one new
   frame on both strips when the local time is resolved and none when it is
   not; no frame is shown and the blink state does not change outside a
   cadence action. *)
C9_BlinkWithRenderCall ==
    [][ IF ticks' = ticks + 1
        THEN /\ dotState' = (IF config.blinkDots THEN ~dotState ELSE TRUE)
             /\ IF iter'.timeOk THEN BothShown(1) ELSE BothShown(0)
        ELSE /\ dotState' = dotState
             /\ BothShown(0) ]_vars

C9_Witness ==
    /\ ticks = 2 /\ iter.acted /\ ~iter.timeOk
    /\ hourStrip.shows = 1 /\ minuteStrip.shows = 1

(* C10: when getLocalTime fails at a tick, updateDisplay changes no element
   colour and no brightness of either strip and pushes nothing: the last
   frame shown is kept. *)
C10_FailedTimeKeepsFrame ==
    [][ (ticks' = ticks + 1 /\ ~iter'.timeOk)
          => (hourStrip' = hourStrip /\ minuteStrip' = minuteStrip) ]_vars

C10_Witness ==
    /\ ticks >= 2 /\ iter.acted /\ ~iter.timeOk
    /\ hourStrip.shows > 0
    /\ hourStrip.out.pixels = hourStrip.pixels
    /\ \E i \in 1..14 : hourStrip.out.pixels[i] # 0

(* C11, as claimed: the configuration and the blink state are written only by
   the render loop; no HTTP request handler writes a configuration field. *)
C11_OnlyLoopWritesConfig ==
    [][ (config' # config \/ dotState' # dotState) => loops' = loops + 1 ]_vars

(* C11, amended: the blink state is written only by loop(); the configuration
   is written only by the /save handler, never by loop() or updateDisplay(),
   so a loop() iteration ends with every configuration field as it found it,
   and a /save request changes neither the blink state nor a strip. *)
C11_WritersOfConfigAndBlink ==
    [][ /\ dotState' # dotState => loops' = loops + 1
        /\ loops' = loops + 1 => config' = config
        /\ config' # config =>
             /\ saves' = saves + 1
             /\ dotState' = dotState
             /\ hourStrip' = hourStrip /\ minuteStrip' = minuteStrip ]_vars

C11_Witness ==
    /\ saves = 1 /\ Rendered /\ ~dotState
    /\ config.segmentColor = Blue
    /\ hourStrip.out.pixels[1] = parseColor(Blue)

(* C12: with autoDim off, the brightness applied to both strips is the base
   brightness at every hour, whatever dimStartHour and dimEndHour are. *)
C12_NoAutoDimKeepsBase ==
    (Rendered /\ ~config.autoDim) => BothBrightness(config.brightness)

C12_Witness ==
    /\ Rendered /\ ~config.autoDim
    /\ config.dimStartHour = 22 /\ config.dimEndHour = 6
    /\ locals.tm_hour = 23
    /\ minuteStrip.out.brightness = config.brightness

(* Elements base..base+6 of a frame show `digit` in the shapes and wiring of
   the given role, in the configured colour. *)
SlotShows(frame, base, digit, isMinute) ==
    \A i \in 0..6 :
        LET shape == IF isMinute THEN minuteSegmentMap[digit + 1]
                     ELSE segmentMap[digit + 1]
            wire  == IF isMinute THEN minuteSegmentOrder[i + 1]
                     ELSE hourSegmentOrder[i + 1]
        IN  frame.pixels[base + wire] =
              (IF Bit(shape, 6 - i) = 1 THEN parseColor(config.segmentColor) ELSE 0)

(* C13: at every minute and under every configuration both minute digits are
   drawn on the minute strip with the minute tables: minute/10 at slot base 1
   (a '0' for minutes 0..9) and minute%10 at slot base 8. *)
C13_BothMinuteDigitsDrawn ==
    Rendered =>
      /\ locals.minuteCalls = << <<1, locals.minute \div 10, TRUE>>,
                                 <<8, locals.minute % 10, TRUE>> >>
      /\ SlotShows(minuteStrip.out, 1, locals.minute \div 10, TRUE)
      /\ SlotShows(minuteStrip.out, 8, locals.minute % 10, TRUE)

C13_Witness ==
    /\ Rendered /\ locals.minute = 7
    /\ config.use24h /\ config.hideLeadingZero24h
    /\ SlotShows(minuteStrip.out, 1, 0, TRUE)
    /\ Cardinality({i \in 1..7 : minuteStrip.out.pixels[i] # 0}) = 6

(* The frame a strip shows when rendered from its power-up state. *)
FreshFrame(calls, dot, tm_hour) ==
    renderStrip(NewStrip, calls, config, dot, tm_hour).out

(* C14: a render's frames depend only on the time, the configuration and the
   blink value: whatever was rendered before, both strips show the element
   colours and the brightness that the same inputs give on strips that never
   rendered; so two renders with identical inputs show identical frames. *)
C14_RenderIdempotent ==
    [][ hourStrip'.shows # hourStrip.shows =>
          /\ hourStrip'.out =
               FreshFrame(hourCalls(locals'.tm_hour, config), dotState',
                          locals'.tm_hour)
          /\ minuteStrip'.out =
               FreshFrame(minuteCalls(locals'.minute), dotState',
                          locals'.tm_hour)
          /\ hourStrip'.pixels = hourStrip'.out.pixels
          /\ minuteStrip'.pixels = minuteStrip'.out.pixels ]_vars

C14_Witness ==
    /\ Rendered /\ hourStrip.shows = 3 /\ saves = 1
    /\ locals.tm_hour = 9 /\ ~config.use24h
    /\ HourTensSuppressed

OnOrOff(frame) ==
    \A i \in 0..(NUM_LEDS - 1) :
        frame.pixels[i] \in {0, parseColor(config.segmentColor)}

(* C15: a render recomputes both frames whole: whatever was shown before,
   each of the 15 elements of each strip is the configured colour or off as
   this tick's time, configuration and blink value decide, and when the
   hour-tens digit is suppressed elements 8..14 of the hour strip are off. *)
C15_NoResidue ==
    [][ hourStrip'.shows # hourStrip.shows =>
          LET hf   == hourStrip'.out
              mf   == minuteStrip'.out
              l    == locals'
              tens == l.h1 > 0 \/ (config.use24h /\ ~config.hideLeadingZero24h)
              sep  == IF dotState' THEN parseColor(config.segmentColor) ELSE 0
          IN  /\ OnOrOff(hf) /\ OnOrOff(mf)
              /\ hf.pixels[0] = sep /\ mf.pixels[0] = sep
              /\ SlotShows(hf, 1, l.h2, FALSE)
              /\ IF tens THEN SlotShows(hf, 8, l.h1, FALSE)
                 ELSE \A i \in 8..14 : hf.pixels[i] = 0
              /\ SlotShows(mf, 1, l.m1, TRUE)
              /\ SlotShows(mf, 8, l.m2, TRUE) ]_vars

C15_Witness ==
    /\ Rendered /\ hourStrip.shows >= 2 /\ saves = 1
    /\ config.use24h /\ config.hideLeadingZero24h /\ locals.tm_hour = 9
    /\ \A i \in 8..14 : hourStrip.out.pixels[i] = 0
    /\ hourStrip.out.pixels[0] = parseColor(Blue)

Range(f) == {f[x] : x \in DOMAIN f}

(* the writes of one drawDigit call: 7 distinct indices filling its slot *)
FillsSlot(call, writes) ==
    /\ Len(writes) = 7
    /\ Cardinality(Range(writes)) = 7
    /\ Range(writes) = call[1]..(call[1] + 6)
    /\ Range(writes) \subseteq 1..(NUM_LEDS - 1)

CallsFillSlots(calls, writes) ==
    /\ Len(writes) = Len(calls)
    /\ \A k \in 1..Len(calls) : FillsSlot(calls[k], writes[k])
    /\ \A k \in 1..Len(calls) : \A n \in 1..Len(calls) :
         k # n => Range(writes[k]) \cap Range(writes[n]) = {}

(* C16: every drawDigit call writes exactly 7 distinct element indices, all
   in base..base+6 and so inside the 15-element strip; this holds for every
   digit, both roles and both slot bases, each position table being a
   bijection onto 0..6; the two slots of a strip never overlap and no digit
   write touches separator element 0. *)
C16_DigitWritesStayInSlot ==
    /\ Rendered =>
         /\ CallsFillSlots(locals.hourCalls, locals.hourWrites)
         /\ CallsFillSlots(locals.minuteCalls, locals.minuteWrites)
    /\ \A digit \in 0..9 : \A isMinute \in BOOLEAN : \A base \in {1, 8} :
         FillsSlot(<<base, digit, isMinute>>,
                   callWrites(<< <<base, digit, isMinute>> >>)[1])
    /\ Range(hourSegmentOrder) = 0..6 /\ Len(hourSegmentOrder) = 7
    /\ Range(minuteSegmentOrder) = 0..6 /\ Len(minuteSegmentOrder) = 7

C16_Witness ==
    /\ Rendered /\ locals.tm_hour = 23 /\ config.use24h
    /\ Len(locals.hourWrites) = 2
    /\ locals.hourWrites[1] = <<9, 8, 12, 13, 14, 10, 11>>
    /\ locals.minuteWrites[2] = <<13, 12, 14, 11, 8, 10, 9>>

(* the relabellings of the 7 bit positions that carry the hour shape of every
   digit to its minute shape *)
FontRelabellings ==
    { q \in Permutations(0..6) :
        \A d \in 0..9 : \A k \in 0..6 :
            Bit(digitSegments(d, FALSE), k) = Bit(digitSegments(d, TRUE), q[k]) }

LitIn(frame, base) ==
    Cardinality({i \in base..(base + 6) : frame.pixels[i] # 0})

(* C17: one permutation of the 7 bit positions maps segmentMap[d] to
   minuteSegmentMap[d] for every digit d; so a digit lights the same number
   of segments on the hour strip as on the minute strip. *)
C17_SameFontRelabelled ==
    /\ FontRelabellings # {}
    /\ (Rendered /\ locals.h2 = locals.m2) =>
         LitIn(hourStrip.out, 1) = LitIn(minuteStrip.out, 8)
    /\ (Rendered /\ locals.h2 = locals.m1) =>
         LitIn(hourStrip.out, 1) = LitIn(minuteStrip.out, 1)

C17_Witness ==
    /\ Rendered /\ locals.h2 = 7 /\ locals.m2 = 7
    /\ LitIn(hourStrip.out, 1) = 3 /\ LitIn(minuteStrip.out, 8) = 3
    /\ FontRelabellings = { [k \in 0..6 |-> <<3, 5, 2, 0, 1, 4, 6>>[k + 1]] }

====
